---- MODULE Spec2Model ----
(***************************************************************************)
(* State-machine model of AirfarePredictionApp (src/src/main.py): the      *)
(* Bokeh dashboard whose widget callbacks filter an in-memory Data Store,  *)
(* redraw six charts and dispatch a prediction.                            *)
(*                                                                         *)
(* One action per callback.  A callback that raises part-way (a chart      *)
(* builder failing on its filtered rows) keeps the assignments made before *)
(* the raise and skips the rest: `steps` records the steps completed by    *)
(* the last callback and `failed` whether it raised.                       *)
(***************************************************************************)
EXTENDS Integers, Sequences, FiniteSets, TLC

(***************************************************************************)
(* Bounds of the model.                                                    *)
(***************************************************************************)
\* The Data Store is a prefix of Universe with at most MaxRows rows.
MaxRows == 23
\* A regression model returns a price in 0..MaxPrice dollars.
MaxPrice == 1

(***************************************************************************)
(* Program constants.                                                      *)
(***************************************************************************)
\* alpha = 0.8, in tenths
AlphaVisible == 8
\* bin width of the histogram, np.arange(min, max + 20, 20)
HistogramBinWidth == 20
\* ts_df['year'].max() != 2024
ProphetLastYear == 2024

SAN == "SAN - San Diego International Airport"
LAX == "LAX - Los Angeles International Airport"
ORD == "ORD - Chicago O'Hare International Airport"

\* sorted(): the airport names in ascending string order.
AirportOrder == <<LAX, ORD, SAN>>

SeasonOptions == <<"", "Spring", "Summer", "Fall", "Winter">>

ModelOptions ==
    <<"", "FB Prophet", "Random Forest", "Decision Tree", "XGBoost", "CatBoost">>

\* The carrier names (carrier_lg_name_concat, carrier_low_name_concat) in
\* ascending string order, each by its code.
CarrierOrder == <<"AA", "AS", "B6", "DL", "F9", "G4", "HA", "NK", "SY", "UA", "WN", "XP">>

\* .sort_values("avg_fare", ascending=False)[:10]
TopCarriers == 10

\* Range1d(0, max(...) + 20) of the line chart
YPadding == 20

\* np.linspace(..., num=7): 7 edges, 6 bins
LinspaceNum == 7

\* 0.001 = 1 / 1000, "account for float roundoff error"
EpsInverse == 1000

\* Mutant of multi_airport_codes: no code is treated as multi-airport.
NoMultiAirportCodes == {}

multi_airport_codes == {"ACY", "ORD", "DTW", "LGA", "IAD", "EGE"}

\* The text of the result Div: the placeholder, or a formatted price.
PlaceholderText == [text |-> "Est. Price:<h2>$   -  </h2>", value |-> 0]

\* self.prophet_fare_df = None
None == << >>

\* No model.predict call: no model, no Data Store row, no engineered
\* features, no encoded selection.
NotInvoked == [model |-> "", row |-> 0, features |-> << >>, encoded |-> << >>]

\* bins=[0, 500, 1500, 3000, 6000]
DistanceBins == <<0, 500, 1500, 3000, 6000>>

\* labels=['short', 'medium', 'long', 'ultra']
DistanceLabels == <<"short", "medium", "long", "ultra">>

\* f'{prefix}_{level}': a column name of pd.get_dummies, as its three parts.
Column(prefix, level) == <<prefix, "_", level>>

\* decision_and_forest_model_columns.pkl: the columns of the training data, in
\* training order.  The training data had no origin LAX and no season Fall.
decision_forest_model_columns ==
    << Column("airport_name_concat_1", SAN),
       Column("airport_name_concat_2", LAX),
       Column("airport_name_concat_2", ORD),
       Column("airport_name_concat_2", SAN),
       Column("season", "Spring"),
       Column("season", "Summer"),
       Column("season", "Winter") >>

(***************************************************************************)
(* Inputs: the rows of processed-data.csv and the forecast tables.         *)
(* Fares are whole dollars.                                                *)
(***************************************************************************)
\* state_2 of a destination airport.
StateOf(airport) ==
    CASE airport = SAN -> "California"
      [] airport = LAX -> "California"
      [] airport = ORD -> "Illinois"

\* nsmiles of a route; the distances of the model sit on the edges of the
\* distance bins.
Miles(o, d) == IF ORD \in {o, d} THEN 1500 ELSE 500

Row(o, d, s, y, q, f, flg, flow, clg, clow) ==
    [airport_name_concat_1 |-> o, airport_name_concat_2 |-> d, season |-> s,
     year |-> y, quarter |-> q, fare |-> f, fare_lg |-> flg, fare_low |-> flow,
     carrier_lg_name_concat |-> clg, carrier_low_name_concat |-> clow,
     state_2 |-> StateOf(d), nsmiles |-> Miles(o, d)]

Universe ==
    << Row(SAN, LAX, "Spring", 2024, 2, 100, 112,  91, "AA", "WN"),
       Row(SAN, LAX, "Spring", 2023, 2, 125, 137, 116, "AS", "NK"),
       Row(SAN, LAX, "Summer", 2024, 3, 132, 144, 123, "B6", "F9"),
       Row(SAN, LAX, "Summer", 2023, 3, 157, 169, 148, "DL", "G4"),
       Row(SAN, LAX, "Winter", 2024, 1, 164, 176, 155, "F9", "SY"),
       Row(SAN, LAX, "Winter", 2023, 1, 189, 201, 180, "G4", "XP"),
       Row(LAX, SAN, "Spring", 2023, 2, 196, 208, 187, "XP", "UA"),
       Row(LAX, SAN, "Spring", 2022, 2, 221, 233, 212, "WN", "WN"),
       Row(LAX, SAN, "Summer", 2023, 3, 228, 240, 219, "UA", "B6"),
       Row(LAX, SAN, "Summer", 2022, 3, 253, 265, 244, "DL", "AS"),
       Row(LAX, SAN, "Fall",   2023, 4, 260, 272, 251, "XP", "UA"),
       Row(LAX, SAN, "Fall",   2022, 4, 285, 297, 276, "WN", "WN"),
       Row(LAX, SAN, "Winter", 2023, 1, 292, 304, 283, "UA", "B6"),
       Row(LAX, SAN, "Winter", 2022, 1, 317, 329, 308, "DL", "AS"),
       Row(SAN, ORD, "Spring", 2024, 2, 324, 336, 315, "HA", "AA"),
       Row(SAN, ORD, "Spring", 2023, 2, 349, 361,   0, "NK", "AS"),
       Row(SAN, ORD, "Summer", 2024, 3, 356, 368, 347, "SY", "B6"),
       Row(SAN, ORD, "Summer", 2023, 3, 381, 393,   0, "UA", "DL"),
       Row(SAN, ORD, "Fall",   2024, 4, 388, 400, 379, "WN", "HA"),
       Row(SAN, ORD, "Fall",   2023, 4, 413, 425, 404, "AA", "WN"),
       Row(SAN, ORD, "Winter", 2024, 1, 420, 432, 411, "AS", "NK"),
       Row(SAN, ORD, "Winter", 2023, 1, 445, 457, 436, "B6", "F9"),
       Row(LAX, SAN, "Fall",   2024, 4, 452, 464, 443, "XP", "UA"),
       Row(SAN, LAX, "Fall",   2023, 4, 463, 475, 454, "AA", "WN") >>

\* The Data Stores considered: the first 22, 23, ... MaxRows rows of Universe.
DataStores ==
    { SubSeq(Universe, 1, n) :
        n \in 22..(IF MaxRows < Len(Universe) THEN MaxRows ELSE Len(Universe)) }

\* pd.PeriodIndex('<year>-Q<quarter>', freq='Q').to_timestamp(freq='Q'):
\* the quarter's end date, as the number of quarters since year 0.
QuarterEnd(year, quarter) == year * 4 + quarter

\* One forecast table: route key -> records {ds, yhat}.
ForecastSeries(base) ==
    << [ds |-> QuarterEnd(2024, 1), yhat |-> base],
       [ds |-> QuarterEnd(2024, 4), yhat |-> base + 10],
       [ds |-> QuarterEnd(2025, 1), yhat |-> base + 30] >>

\* f'{src}-{dst}': the route key, as its three parts.
RouteKey(src, dst) == <<src, "-", dst>>

\* The routes the offline Prophet run produced a forecast for.
ForecastRoutes ==
    {RouteKey("SAN", "LAX"), RouteKey("SAN", "ORD"), RouteKey("LAX", "SAN")}

PrimaryForecast(base) == [r \in ForecastRoutes |-> ForecastSeries(base)]

\* prophet_model_fare_forecast.json, prophet_model_farelg_forecast.json and
\* prophet_model_farelow_forecast.json: on LAX-SAN the overall fare is
\* forecast above the largest carrier's fare.
FareForecast ==
    [PrimaryForecast(150) EXCEPT ![RouteKey("LAX", "SAN")] = ForecastSeries(480)]

FareLgForecast ==
    [PrimaryForecast(160) EXCEPT ![RouteKey("LAX", "SAN")] = ForecastSeries(440)]

FareLowForecast ==
    [PrimaryForecast(140) EXCEPT ![RouteKey("LAX", "SAN")] = ForecastSeries(400)]

\* self.prophet_fare_dfs2 = {} and its two companions: no route was remapped.
prophet_fare_dfs2 == [r \in {} |-> << >>]

prophet_farelg_dfs2 == [r \in {} |-> << >>]

prophet_farelow_dfs2 == [r \in {} |-> << >>]

VARIABLES
    df,                     \* self.df
    prophet_fare_dfs,       \* self.prophet_fare_dfs
    prophet_farelg_dfs,     \* self.prophet_farelg_dfs
    prophet_farelow_dfs,    \* self.prophet_farelow_dfs
    dropdown_origin,        \* [value, options]
    dropdown_destination,   \* [value, options]
    dropdown_season,        \* [value, options]
    dropdown_ml_model,      \* [value, options]
    analysis_results,       \* text of the result Div
    prophet_fare_df,        \* cached forecast (history + forecast) or None
    prophet_fare_lg_df,
    prophet_fare_low_df,
    choropleth,             \* what each chart region currently shows
    histogram,
    line_chart,
    seasonal_boxplot,
    lg_bar_chart,
    low_bar_chart,
    last_event,             \* the callback that ran last
    steps,                  \* the steps it completed, in order
    notice,                 \* the lines it printed
    invoked,                \* the regression model it called and its input
    failed                  \* whether it raised

tables == <<prophet_fare_dfs, prophet_farelg_dfs, prophet_farelow_dfs>>
inputs == <<df, tables>>
widgets == <<dropdown_origin, dropdown_destination, dropdown_season, dropdown_ml_model>>
cached == <<prophet_fare_df, prophet_fare_lg_df, prophet_fare_low_df>>
charts == <<choropleth, histogram, line_chart, seasonal_boxplot, lg_bar_chart, low_bar_chart>>
event_log == <<last_event, steps, notice, invoked, failed>>
vars == <<inputs, widgets, analysis_results, cached, charts, event_log>>

(***************************************************************************)
(* Helpers.                                                                *)
(***************************************************************************)
Range(s) == { s[i] : i \in 1..Len(s) }

SetMax(S) == CHOOSE x \in S : \A y \in S : y <= x

SetMin(S) == CHOOSE x \in S : \A y \in S : x <= y

\* origin.split()[0]: the first whitespace-separated token of the name.
FirstToken(name) ==
    CASE name = SAN -> "SAN"
      [] name = LAX -> "LAX"
      [] name = ORD -> "ORD"
      [] OTHER -> ""

\* sum of a column over the rows of a frame
RECURSIVE ColumnSum(_, _, _)
ColumnSum(d, rows, col) ==
    IF rows = << >> THEN 0 ELSE d[Head(rows)][col] + ColumnSum(d, Tail(rows), col)

\* A mean is kept exact, as total / count: a.mean > b.mean
MeanGreater(a, b) == a.total * b.count > b.total * a.count

(***************************************************************************)
(* Filter Engine.                                                          *)
(***************************************************************************)
\* A DataFrame cut from d is the sequence of the row labels it keeps.
AllRows(d) == [i \in 1..Len(d) |-> i]

\* Mutant of GetFilteredData: the destination predicate is never applied.
GetFilteredDataNoDestination(d, origin, destination, season, filter_season) ==
    LET IsOrigin(i) == d[i].airport_name_concat_1 = origin
        IsSeason(i) == d[i].season = season
        f0 == AllRows(d)
        f1 == IF origin # "" THEN SelectSeq(f0, IsOrigin) ELSE f0
        f3 == IF filter_season /\ season # "" THEN SelectSeq(f1, IsSeason) ELSE f1
    IN  f3

GetFilteredData(d, origin, destination, season, filter_season) ==
    LET IsOrigin(i) == d[i].airport_name_concat_1 = origin
        IsDestination(i) == d[i].airport_name_concat_2 = destination
        IsSeason(i) == d[i].season = season
        f0 == AllRows(d)
        f1 == IF origin # "" THEN SelectSeq(f0, IsOrigin) ELSE f0
        f2 == IF destination # "" THEN SelectSeq(f1, IsDestination) ELSE f1
        f3 == IF filter_season /\ season # "" THEN SelectSeq(f2, IsSeason) ELSE f2
    IN  f3

\* Mutant of CopySharesStore: the frame is the Data Store itself.
NoCopy == TRUE

\* filtered_df = self.df.copy(deep=True): whether the frame's data is the Data
\* Store's own.
CopySharesStore == FALSE

\* _get_filtered_data: each filter that applies builds a new frame by boolean
\* indexing; when none applies the copy itself is returned.
FilteredSharesStore(origin, destination, season, filter_season) ==
    /\ CopySharesStore
    /\ origin = ""
    /\ destination = ""
    /\ ~(filter_season /\ season # "")

\* df.copy() in feature_engineering, ts_df[self.ts_cols] and
\* engineered_data.iloc[[0]]: a new frame, whatever its source shares.
NewFrameSharesStore == FALSE

\* frame[col] = values: the column is written into the frame's data, which is
\* the Data Store's when the frame shares it.
AssignColumn(d, shares, col, values) ==
    IF shares
    THEN [i \in 1..Len(d) |->
             [c \in DOMAIN d[i] \cup {col} |-> IF c = col THEN values[i] ELSE d[i][c]]]
    ELSE d

(***************************************************************************)
(* Option lists of the origin and destination dropdowns.                   *)
(***************************************************************************)
\* [''] + sorted(list(names.unique()))
SortedOptions(names) ==
    LET In(a) == a \in names IN <<"">> \o SelectSeq(AirportOrder, In)

InitialOriginOptions(d) ==
    SortedOptions({ d[i].airport_name_concat_1 : i \in 1..Len(d) })

InitialDestinationOptions(d) ==
    SortedOptions({ d[i].airport_name_concat_2 : i \in 1..Len(d) })

\* Mutant of DestinationOptionsFor: an empty origin is filtered on like any
\* other value.
DestinationOptionsAlwaysFiltered(d, new) ==
    SortedOptions({ d[i].airport_name_concat_2 :
                      i \in { j \in 1..Len(d) : d[j].airport_name_concat_1 = new } })

\* _handle_origin_input_change: the destinations to offer for origin `new`.
DestinationOptionsFor(d, new) ==
    IF new = ""
    THEN SortedOptions({ d[i].airport_name_concat_2 : i \in 1..Len(d) })
    ELSE SortedOptions({ d[i].airport_name_concat_2 :
                           i \in { j \in 1..Len(d) : d[j].airport_name_concat_1 = new } })

\* Mutant of OriginOptionsFor: every origin of the Data Store is offered,
\* whatever the destination.
OriginOptionsUnfiltered(d, new) == InitialOriginOptions(d)

\* Mutant of OriginOptionsFor: the rows are filtered on the origin column.
OriginOptionsWrongColumn(d, new) ==
    IF new = ""
    THEN SortedOptions({ d[i].airport_name_concat_1 : i \in 1..Len(d) })
    ELSE SortedOptions({ d[i].airport_name_concat_1 :
                           i \in { j \in 1..Len(d) : d[j].airport_name_concat_1 = new } })

\* _handle_destination_input_change: the origins to offer for destination `new`.
OriginOptionsFor(d, new) ==
    IF new = ""
    THEN SortedOptions({ d[i].airport_name_concat_1 : i \in 1..Len(d) })
    ELSE SortedOptions({ d[i].airport_name_concat_1 :
                           i \in { j \in 1..Len(d) : d[j].airport_name_concat_2 = new } })

(***************************************************************************)
(* Chart builders.                                                         *)
(***************************************************************************)
\* `self.dropdown_destination == ''` compares the Select widget itself, not
\* its value, with a string: a bokeh model is never equal to a str.
WidgetEqualsStr(widget, str) == FALSE

\* "Initialize with invisible chart": any([origin.value == '', destination == ''])
ChartAlpha(origin, destination_widget) ==
    IF origin = "" \/ WidgetEqualsStr(destination_widget, "")
    THEN 0
    ELSE AlphaVisible

Fares(d, rows) == { d[rows[k]].fare : k \in 1..Len(rows) }

\* len(np.arange(min, max + 20, 20)) = ceil((max + 20 - min) / 20); the
\* bounds are NaN for no rows and np.arange raises.
HistogramEdges(d, rows) ==
    IF rows = << >>
    THEN 0
    ELSE (SetMax(Fares(d, rows)) + HistogramBinWidth - SetMin(Fares(d, rows))
            + (HistogramBinWidth - 1)) \div HistogramBinWidth

\* np.arange raises on NaN bounds; with a single edge np.histogram returns no
\* bin and np.max(hist) raises.
HistogramRaises(d, rows) == HistogramEdges(d, rows) < 2

RedrawHistogram(d, origin, destination_widget, season) ==
    LET rows == GetFilteredData(d, origin, destination_widget.value, season, TRUE)
    IN  [alpha |-> ChartAlpha(origin, destination_widget),
         rows |-> rows,
         bins |-> HistogramEdges(d, rows) - 1]

RowDate(d, i) == QuarterEnd(d[i].year, d[i].quarter)

\* filtered_df['date'].max(); NaT (here 0) for no rows.
MaxDate(d, rows) ==
    IF rows = << >> THEN 0 ELSE SetMax({ RowDate(d, rows[k]) : k \in 1..Len(rows) })

\* Mutant of FromDate: the whole cached series is plotted.
FromDateUnfiltered(series, max_date) == series

\* prophet_df[prophet_df.ds >= max_date]; a comparison with NaT is False.
FromDate(series, max_date) ==
    LET Late(p) == max_date # 0 /\ p.ds >= max_date IN SelectSeq(series, Late)

\* filtered_df.groupby("date").agg(avg_fare=("fare", "mean"), ...): the rows
\* from the k-th on are added to the totals and counts per date.
RECURSIVE DateTotals(_, _, _, _)
DateTotals(d, rows, k, acc) ==
    IF k > Len(rows)
    THEN acc
    ELSE DateTotals(d, rows, k + 1,
                    [acc EXCEPT ![RowDate(d, rows[k])] =
                        [fare |-> @.fare + d[rows[k]].fare,
                         fare_lg |-> @.fare_lg + d[rows[k]].fare_lg,
                         count |-> @.count + 1]])

\* avg_fare_by_year[col].max(): the largest mean, kept exact as
\* total / count; NaN (count 0) for no rows.
MaxDateMean(totals, col) ==
    IF DOMAIN totals = {}
    THEN [total |-> 0, count |-> 0]
    ELSE LET best == CHOOSE date \in DOMAIN totals :
                         \A other \in DOMAIN totals :
                             totals[other][col] * totals[date].count
                                 <= totals[date][col] * totals[other].count
         IN  [total |-> totals[best][col], count |-> totals[best].count]

\* prophet_df['y'].max()
MaxY(series) ==
    [total |-> SetMax({ series[k].y : k \in 1..Len(series) }), count |-> 1]

\* max(a, b, ...): the first of the largest arguments.
Largest(values) ==
    values[CHOOSE k \in 1..Len(values) :
               /\ \A j \in 1..Len(values) : ~MeanGreater(values[j], values[k])
               /\ \A j \in 1..(k - 1) : MeanGreater(values[k], values[j])]

\* Range1d(0, m + 20): the upper bound of the y axis.
UpperBound(m) == [total |-> m.total + YPadding * m.count, count |-> m.count]

RedrawLineChart(d, origin, destination_widget, fare_df, fare_lg_df, fare_low_df) ==
    LET rows == GetFilteredData(d, origin, destination_widget.value, "", FALSE)
        max_date == MaxDate(d, rows)
        avg_fare_by_year ==
            DateTotals(d, rows, 1,
                       [date \in { RowDate(d, rows[k]) : k \in 1..Len(rows) } |->
                           [fare |-> 0, fare_lg |-> 0, count |-> 0]])
        avg_fare_lg == MaxDateMean(avg_fare_by_year, "fare_lg")
        avg_fare == MaxDateMean(avg_fare_by_year, "fare")
    IN  [alpha |-> ChartAlpha(origin, destination_widget),
         rows |-> rows,
         has_prophet |-> fare_df # None,
         ylim |-> IF fare_df # None
                  THEN UpperBound(Largest(<<avg_fare_lg, avg_fare, MaxY(fare_lg_df)>>))
                  ELSE UpperBound(Largest(<<avg_fare_lg, avg_fare>>)),
         prophet |-> IF fare_df # None
                     THEN <<FromDate(fare_df, max_date),
                            FromDate(fare_lg_df, max_date),
                            FromDate(fare_low_df, max_date)>>
                     ELSE << >>]

\* self.df after _redraw_holoviews_line_chart: filtered_df['date'] = ...
StoreAfterLineChart(d, origin, destination) ==
    AssignColumn(d, FilteredSharesStore(origin, destination, "", FALSE), "date",
                 [i \in 1..Len(d) |-> RowDate(d, i)])

\* self.df after _redraw_holoviews_seasonal_boxplot:
\* filtered_df['season'] = pd.Categorical(filtered_df['season'], ...) keeps the
\* label of every row.
StoreAfterSeasonalBoxplot(d, origin, destination) ==
    AssignColumn(d, FilteredSharesStore(origin, destination, "", FALSE), "season",
                 [i \in 1..Len(d) |-> d[i].season])

\* The rows are sorted by season before hv.BoxWhisker groups them by season:
\* the chart shows the set of rows.
RedrawSeasonalBoxplot(d, origin, destination_widget) ==
    LET rows == GetFilteredData(d, origin, destination_widget.value, "", FALSE)
    IN  [alpha |-> ChartAlpha(origin, destination_widget),
         rows |-> Range(rows)]

\* .groupby(name_col).agg(avg_fare=(col, "mean")).reset_index(): one entry per
\* carrier name, in ascending name order; the mean is kept exact, as
\* total / count.
GroupMeans(d, rows, name_col, col) ==
    LET Has(c) == \E k \in 1..Len(rows) : d[rows[k]][name_col] = c
        names == SelectSeq(CarrierOrder, Has)
    IN  [n \in 1..Len(names) |->
            LET IsCarrier(i) == d[i][name_col] = names[n]
                group == SelectSeq(rows, IsCarrier)
            IN  [name |-> names[n],
                 total |-> ColumnSum(d, group, col),
                 count |-> Len(group)]]

\* .sort_values("avg_fare", ascending=False): entries of equal mean keep
\* their order.
RECURSIVE SortDescending(_)
SortDescending(avg) ==
    IF avg = << >>
    THEN << >>
    ELSE LET sorted == SortDescending(SubSeq(avg, 1, Len(avg) - 1))
             last == avg[Len(avg)]
             NotLess(e) == ~MeanGreater(last, e)
             Less(e) == MeanGreater(last, e)
         IN  SelectSeq(sorted, NotLess) \o <<last>> \o SelectSeq(sorted, Less)

\* [:10]
Top(avg) == SubSeq(avg, 1, IF Len(avg) < TopCarriers THEN Len(avg) ELSE TopCarriers)

\* Mutant of KeepPositive: every entry is kept.
KeepAll(avg) == avg

\* avg_data[avg_data['avg_fare'] > 0]
KeepPositive(avg) ==
    LET Positive(e) == e.total > 0 IN SelectSeq(avg, Positive)

RedrawBarChart(d, origin, destination_widget, season, carrier_type) ==
    LET rows == GetFilteredData(d, origin, destination_widget.value, season, TRUE)
        col == IF carrier_type = "lg" THEN "fare_lg" ELSE "fare_low"
        name_col == IF carrier_type = "lg" THEN "carrier_lg_name_concat"
                                           ELSE "carrier_low_name_concat"
    IN  [alpha |-> ChartAlpha(origin, destination_widget),
         carrier_type |-> carrier_type,
         rows |-> rows,
         bars |-> KeepPositive(Top(SortDescending(GroupMeans(d, rows, name_col, col))))]

\* .groupby('state_2').agg({'fare': 'mean'}): state -> mean fare, kept exact
\* as total / count.
StateMeans(d, rows) ==
    [st \in { d[rows[k]].state_2 : k \in 1..Len(rows) } |->
        LET InState(i) == d[i].state_2 = st
            group == SelectSeq(rows, InState)
        IN  [total |-> ColumnSum(d, group, "fare"), count |-> Len(group)]]

\* df['fare'].min() and df['fare'].max()
MinMean(means) ==
    means[CHOOSE st \in DOMAIN means :
              \A other \in DOMAIN means : ~MeanGreater(means[st], means[other])]

MaxMean(means) ==
    means[CHOOSE st \in DOMAIN means :
              \A other \in DOMAIN means : ~MeanGreater(means[other], means[st])]

\* The mean v and the k-th edge of
\* np.linspace(min - 0.001, max + 0.001, num=7), both multiplied by
\* 6 * 1000 * v.count * lo.count * hi.count so that they are integers.
ScaledMean(v, lo, hi) == (LinspaceNum - 1) * EpsInverse * v.total * lo.count * hi.count

ScaledEdge(v, lo, hi, k) ==
    v.count * ((LinspaceNum - 1 - k) * (EpsInverse * lo.total - lo.count) * hi.count
               + k * (EpsInverse * hi.total + hi.count) * lo.count)

\* Mutant of CutLabel: the bins are closed on the left.
CutLabelLeftClosed(v, lo, hi) ==
    LET ids == Cardinality({ k \in 0..(LinspaceNum - 1) :
                               ScaledEdge(v, lo, hi, k) <= ScaledMean(v, lo, hi) })
    IN  IF ids \in 1..(LinspaceNum - 1) THEN ids - 1 ELSE -1

\* pd.cut(df['fare'], bins=bins, labels=list(range(6))): the bins are closed
\* on the right; the label is the number of edges below the value, less
\* one, and NaN (here -1) for a value outside the edges.
CutLabel(v, lo, hi) ==
    LET ids == Cardinality({ k \in 0..(LinspaceNum - 1) :
                               ScaledEdge(v, lo, hi, k) < ScaledMean(v, lo, hi) })
    IN  IF ids \in 1..(LinspaceNum - 1) THEN ids - 1 ELSE -1

\* _update_choropleth: the origin's rows colour the states, each by the bin
\* of its mean fare, and each marker is shown at the selected airport; the
\* marker of an empty selection is hidden (alpha 0) and shows nothing.
UpdateChoropleth(d, origin_value, destination_value) ==
    LET IsOrigin(i) == d[i].airport_name_concat_1 = origin_value
        rows == IF origin_value = "" THEN << >> ELSE SelectSeq(AllRows(d), IsOrigin)
        fares == StateMeans(d, rows)
    IN  [origin_marker |-> origin_value,
         origin_alpha |-> IF origin_value = "" THEN 0 ELSE 1,
         coloured_by |-> rows,
         bins |-> IF rows = << >> THEN 0 ELSE LinspaceNum - 1,
         fares |-> fares,
         colors |-> [st \in DOMAIN fares |->
                        CutLabel(fares[st], MinMean(fares), MaxMean(fares))],
         dest_marker |-> destination_value,
         dest_alpha |-> IF destination_value = "" THEN 0 ELSE 1]

\* _initialize_choropleth: both markers hidden, no state coloured.
InitialChoropleth ==
    [origin_marker |-> "", origin_alpha |-> 0, coloured_by |-> << >>,
     bins |-> 0, fares |-> << >>, colors |-> << >>,
     dest_marker |-> "", dest_alpha |-> 0]

\* Mutant of UpdateAnalysisResults: zero is formatted like any other value.
UpdateAnalysisResultsNoPlaceholder(value) ==
    [text |-> "Est. Price:<h2>$ {value:.2f}</h2>", value |-> value * 100]

\* _update_analysis_results
UpdateAnalysisResults(value) ==
    IF value = 0
    THEN PlaceholderText
    ELSE [text |-> "Est. Price:<h2>$ {value:.2f}</h2>", value |-> value * 100]

\* Mutant of ResetPrediction: the displayed prediction is left as it is.
KeepPrediction == analysis_results

\* self._update_analysis_results(0.): the reset of the displayed prediction
\* by the season and model callbacks and by the FB Prophet branch.
ResetPrediction == UpdateAnalysisResults(0)

(***************************************************************************)
(* Initial state: __init__ followed by build().                            *)
(***************************************************************************)
Init ==
    /\ df \in DataStores
    /\ prophet_fare_dfs = FareForecast
    /\ prophet_farelg_dfs = FareLgForecast
    /\ prophet_farelow_dfs = FareLowForecast
    /\ dropdown_origin = [value |-> "", options |-> InitialOriginOptions(df)]
    /\ dropdown_destination = [value |-> "", options |-> InitialDestinationOptions(df)]
    /\ dropdown_season = [value |-> "", options |-> SeasonOptions]
    /\ dropdown_ml_model = [value |-> "", options |-> ModelOptions]
    /\ analysis_results = PlaceholderText
    /\ prophet_fare_df = None
    /\ prophet_fare_lg_df = None
    /\ prophet_fare_low_df = None
    /\ choropleth = InitialChoropleth
    /\ histogram = RedrawHistogram(df, "", dropdown_destination, "")
    /\ line_chart = RedrawLineChart(df, "", dropdown_destination, None, None, None)
    /\ seasonal_boxplot = RedrawSeasonalBoxplot(df, "", dropdown_destination)
    /\ lg_bar_chart = RedrawBarChart(df, "", dropdown_destination, "", "lg")
    /\ low_bar_chart = RedrawBarChart(df, "", dropdown_destination, "", "low")
    /\ last_event = "build"
    /\ steps = << >>
    /\ notice = << >>
    /\ invoked = NotInvoked
    /\ failed = FALSE

(***************************************************************************)
(* Steps of a callback: each records whether a forecast was cached when it *)
(* ran.                                                                    *)
(***************************************************************************)
Step(name, fare_df) == [step |-> name, cached |-> fare_df # None]

\* The order of the statements of _handle_origin_input_change and
\* _handle_destination_input_change, up to the histogram.
RouteStepsBeforeClear(fare_df) ==
    <<Step("options", fare_df), Step("choropleth", fare_df), Step("histogram", fare_df)>>

\* ... and from the clearing of the cached forecast on.
RouteStepsFromClear(fare_df) ==
    <<Step("clear_forecast", fare_df), Step("line_chart", fare_df),
      Step("seasonal_boxplot", fare_df), Step("lg_bar_chart", fare_df),
      Step("low_bar_chart", fare_df)>>

\* Mutant of ClearedForecast: the cached series is left in place.
ForecastKept(fare_df) == fare_df

\* self.prophet_fare_df = None  # remove Prophet results before the line chart
ClearedForecast(fare_df) == None

\* The chart cascade shared by the origin and destination callbacks, run with
\* the new selection: choropleth, histogram, (forecast cleared,) line chart,
\* seasonal box plot, both bar charts.  The histogram raising ends it.
RouteCascade(origin, destination_widget) ==
    LET season == dropdown_season.value
        rows == GetFilteredData(df, origin, destination_widget.value, season, TRUE)
    IN  /\ choropleth' = UpdateChoropleth(df, origin, destination_widget.value)
        /\ IF HistogramRaises(df, rows)
           THEN /\ UNCHANGED <<df, histogram, cached, line_chart, seasonal_boxplot,
                               lg_bar_chart, low_bar_chart>>
                /\ steps' = SubSeq(RouteStepsBeforeClear(prophet_fare_df), 1, 2)
                /\ failed' = TRUE
           ELSE /\ histogram' = RedrawHistogram(df, origin, destination_widget, season)
                /\ prophet_fare_df' = ClearedForecast(prophet_fare_df)
                /\ prophet_fare_lg_df' = ClearedForecast(prophet_fare_lg_df)
                /\ prophet_fare_low_df' = ClearedForecast(prophet_fare_low_df)
                /\ line_chart' = RedrawLineChart(df, origin, destination_widget,
                                                 prophet_fare_df', prophet_fare_lg_df',
                                                 prophet_fare_low_df')
                /\ seasonal_boxplot' = RedrawSeasonalBoxplot(df, origin, destination_widget)
                /\ df' = StoreAfterSeasonalBoxplot(
                             StoreAfterLineChart(df, origin, destination_widget.value),
                             origin, destination_widget.value)
                /\ lg_bar_chart' = RedrawBarChart(df, origin, destination_widget, season, "lg")
                /\ low_bar_chart' = RedrawBarChart(df, origin, destination_widget, season, "low")
                /\ steps' = RouteStepsBeforeClear(prophet_fare_df)
                               \o RouteStepsFromClear(prophet_fare_df')
                /\ failed' = FALSE

\* Mutant of RouteChangePrediction: the route callbacks reset the prediction
\* as the season and model callbacks do.
RouteChangeResetsPrediction(shown) == PlaceholderText

\* The displayed prediction after _handle_origin_input_change or
\* _handle_destination_input_change: neither calls _update_analysis_results.
RouteChangePrediction(shown) == shown

(***************************************************************************)
(* Callbacks.  A Select fires on_change when the user picks another of its *)
(* options.                                                                *)
(***************************************************************************)
HandleOriginInputChange ==
    \E new \in Range(dropdown_origin.options) :
        /\ new # dropdown_origin.value
        /\ dropdown_origin' = [dropdown_origin EXCEPT !.value = new]
        /\ dropdown_destination' =
               [dropdown_destination EXCEPT !.options = DestinationOptionsFor(df, new)]
        /\ RouteCascade(new, dropdown_destination')
        /\ last_event' = "origin"
        /\ notice' = << >>
        /\ invoked' = NotInvoked
        /\ analysis_results' = RouteChangePrediction(analysis_results)
        /\ UNCHANGED <<tables, dropdown_season, dropdown_ml_model>>

HandleDestinationInputChange ==
    \E new \in Range(dropdown_destination.options) :
        /\ new # dropdown_destination.value
        /\ dropdown_destination' = [dropdown_destination EXCEPT !.value = new]
        /\ dropdown_origin' =
               [dropdown_origin EXCEPT !.options = OriginOptionsFor(df, new)]
        /\ RouteCascade(dropdown_origin.value, dropdown_destination')
        /\ last_event' = "destination"
        /\ notice' = << >>
        /\ invoked' = NotInvoked
        /\ analysis_results' = RouteChangePrediction(analysis_results)
        /\ UNCHANGED <<tables, dropdown_season, dropdown_ml_model>>

HandleSeasonInputChange ==
    \E new \in Range(dropdown_season.options) :
        LET origin == dropdown_origin.value
            rows == GetFilteredData(df, origin, dropdown_destination.value, new, TRUE)
        IN  /\ new # dropdown_season.value
            /\ dropdown_season' = [dropdown_season EXCEPT !.value = new]
            /\ analysis_results' = ResetPrediction
            /\ IF HistogramRaises(df, rows)
               THEN /\ UNCHANGED <<histogram, lg_bar_chart, low_bar_chart>>
                    /\ steps' = <<Step("reset_prediction", prophet_fare_df)>>
                    /\ failed' = TRUE
               ELSE /\ histogram' = RedrawHistogram(df, origin, dropdown_destination, new)
                    /\ lg_bar_chart' = RedrawBarChart(df, origin, dropdown_destination, new, "lg")
                    /\ low_bar_chart' = RedrawBarChart(df, origin, dropdown_destination, new, "low")
                    /\ steps' = <<Step("reset_prediction", prophet_fare_df),
                                  Step("histogram", prophet_fare_df),
                                  Step("lg_bar_chart", prophet_fare_df),
                                  Step("low_bar_chart", prophet_fare_df)>>
                    /\ failed' = FALSE
            /\ last_event' = "season"
            /\ notice' = << >>
            /\ invoked' = NotInvoked
            /\ UNCHANGED <<inputs, dropdown_origin, dropdown_destination, dropdown_ml_model,
                           cached, choropleth, line_chart, seasonal_boxplot>>

HandleMlModelInputChange ==
    \E new \in Range(dropdown_ml_model.options) :
        /\ new # dropdown_ml_model.value
        /\ dropdown_ml_model' = [dropdown_ml_model EXCEPT !.value = new]
        /\ analysis_results' = ResetPrediction
        /\ prophet_fare_df' = ClearedForecast(prophet_fare_df)
        /\ prophet_fare_lg_df' = ClearedForecast(prophet_fare_lg_df)
        /\ prophet_fare_low_df' = ClearedForecast(prophet_fare_low_df)
        /\ line_chart' = RedrawLineChart(df, dropdown_origin.value, dropdown_destination,
                                         prophet_fare_df', prophet_fare_lg_df',
                                         prophet_fare_low_df')
        /\ steps' = <<Step("reset_prediction", prophet_fare_df),
                      Step("clear_forecast", prophet_fare_df'),
                      Step("line_chart", prophet_fare_df')>>
        /\ last_event' = "ml_model"
        /\ notice' = << >>
        /\ invoked' = NotInvoked
        /\ failed' = FALSE
        /\ df' = StoreAfterLineChart(df, dropdown_origin.value, dropdown_destination.value)
        /\ UNCHANGED <<tables, dropdown_origin, dropdown_destination, dropdown_season,
                       choropleth, histogram, seasonal_boxplot, lg_bar_chart, low_bar_chart>>

(***************************************************************************)
(* Prediction Dispatcher.                                                  *)
(***************************************************************************)
PredictedPrices == 0..MaxPrice

\* Mutant of SortByDate: the rows stay in Data Store order.
SortByDateUnsorted(d, rows) == rows

\* ts_df.sort_values(by='date'): insertion of each row after the rows that
\* are not later than it.
RECURSIVE SortByDate(_, _)
SortByDate(d, rows) ==
    IF rows = << >>
    THEN << >>
    ELSE LET sorted == SortByDate(d, SubSeq(rows, 1, Len(rows) - 1))
             last == rows[Len(rows)]
             NotLater(i) == RowDate(d, i) <= RowDate(d, last)
             Later(i) == RowDate(d, i) > RowDate(d, last)
         IN  SelectSeq(sorted, NotLater) \o <<last>> \o SelectSeq(sorted, Later)

\* table.get(route, None)
Get(table, route) == IF route \in DOMAIN table THEN table[route] ELSE None

\* pd.concat([ts_df[['date', col]] as (ds, y), fcst_df[['ds', 'yhat']] as (ds, y)])
HistoryAndForecast(d, rows, col, fcst) ==
    [k \in 1..Len(rows) |-> [ds |-> RowDate(d, rows[k]), y |-> d[rows[k]][col]]]
        \o [k \in 1..Len(fcst) |-> [ds |-> fcst[k].ds, y |-> fcst[k].yhat]]

IneligibleNotice ==
    <<"Selected route ineligible for FB Prophet forecasting.",
      "Please select a different route.">>

\* Mutant of RouteIneligible: the year of the last observation is not checked.
RouteIneligibleNoYearCheck(years, fcst) == fcst = None

\* if ts_df['year'].max() != 2024 ... if fcst is None: the route is ineligible.
RouteIneligible(years, fcst) ==
    \/ years = {}
    \/ SetMax(years \cup {0}) # ProphetLastYear
    \/ fcst = None

\* Mutant of TreeInputsMissing: the season is not checked.
TreeInputsMissingNoSeason(origin, destination, season) ==
    origin = "" \/ destination = ""

\* if (origin == '') or (destination == '') or (season == '')
TreeInputsMissing(origin, destination, season) ==
    origin = "" \/ destination = "" \/ season = ""

\* Mutant of DistanceBin: the bins are closed on the left.
DistanceBinLeftClosed(nsmiles) ==
    LET ids == Cardinality({ k \in 1..Len(DistanceBins) : DistanceBins[k] <= nsmiles })
    IN  IF ids \in 1..Len(DistanceLabels) THEN DistanceLabels[ids] ELSE "NaN"

\* pd.cut(df['nsmiles'], bins=[0, 500, 1500, 3000, 6000], labels=[...]): the
\* bins are closed on the right; NaN for a distance outside the edges.
DistanceBin(nsmiles) ==
    LET ids == Cardinality({ k \in 1..Len(DistanceBins) : DistanceBins[k] < nsmiles })
    IN  IF ids \in 1..Len(DistanceLabels) THEN DistanceLabels[ids] ELSE "NaN"

\* feature_engineering, then input_data[usable_features]: the features derived
\* from one row.  The airport code and the state of the origin are read off
\* the airport name; coordinates are not part of the model.
FeatureEngineering(r) ==
    [quarter |-> r.quarter,
     season |-> r.season,
     nsmiles |-> r.nsmiles,
     same_state |-> IF StateOf(r.airport_name_concat_1) = r.state_2 THEN 1 ELSE 0,
     route |-> RouteKey(FirstToken(r.airport_name_concat_1),
                        FirstToken(r.airport_name_concat_2)),
     distance_bin |-> DistanceBin(r.nsmiles)]

\* self.df after the XGBoost / CatBoost branch: feature_engineering writes
\* its columns into a copy of the filtered frame.
StoreAfterFeatureEngineering(d) ==
    AssignColumn(d, NewFrameSharesStore, "distance_bin",
                 [i \in 1..Len(d) |-> DistanceBin(d[i].nsmiles)])

\* self.df after ts_df = ts_df[self.ts_cols]; ts_df['date'] = ...
StoreAfterTimeSeries(d) ==
    AssignColumn(d, NewFrameSharesStore, "date", [i \in 1..Len(d) |-> RowDate(d, i)])

\* XGBoost / CatBoost: the first row of the filtered Data Store is the input.
AnalyzeBoosted ==
    LET filtered_data == GetFilteredData(df, dropdown_origin.value,
                                         dropdown_destination.value,
                                         dropdown_season.value, FALSE)
    IN  /\ dropdown_ml_model.value \in {"XGBoost", "CatBoost"}
        /\ \E estimated_price \in IF filtered_data = << >> THEN {0} ELSE PredictedPrices :
               /\ analysis_results' = UpdateAnalysisResults(estimated_price)
               /\ invoked' = IF filtered_data = << >>
                             THEN NotInvoked
                             ELSE [model |-> dropdown_ml_model.value,
                                   row |-> filtered_data[1],
                                   features |-> FeatureEngineering(df[filtered_data[1]]),
                                   encoded |-> << >>]
        /\ df' = IF filtered_data = << >> THEN df ELSE StoreAfterFeatureEngineering(df)
        /\ steps' = <<Step("update_analysis_results", prophet_fare_df)>>
        /\ notice' = << >>
        /\ UNCHANGED <<cached, line_chart>>

\* FB Prophet: look the route up in the forecast tables.
AnalyzeProphet ==
    LET origin == dropdown_origin.value
        destination == dropdown_destination.value
        src == FirstToken(origin)
        dst == FirstToken(destination)
        route == RouteKey(src, dst)
        ts_df == GetFilteredData(df, origin, destination, dropdown_season.value, FALSE)
        years == { df[ts_df[k]].year : k \in 1..Len(ts_df) }
        multi == {src, dst} \cap multi_airport_codes # {}
        fcst == IF multi THEN Get(prophet_fare_dfs2, route) ELSE Get(prophet_fare_dfs, route)
        fcst_lg == IF multi THEN Get(prophet_farelg_dfs2, route)
                            ELSE Get(prophet_farelg_dfs, route)
        fcst_low == IF multi THEN Get(prophet_farelow_dfs2, route)
                             ELSE Get(prophet_farelow_dfs, route)
        history == SortByDate(df, ts_df)
        fare_df == HistoryAndForecast(df, history, "fare", fcst)
        fare_lg_df == HistoryAndForecast(df, history, "fare_lg", fcst_lg)
        fare_low_df == HistoryAndForecast(df, history, "fare_low", fcst_low)
    IN  /\ dropdown_ml_model.value = "FB Prophet"
        /\ analysis_results' = ResetPrediction
        /\ invoked' = NotInvoked
        /\ IF origin = "" \/ destination = ""
           THEN /\ notice' = <<"Please select valid Origin and Destination from dropdown.">>
                /\ steps' = <<Step("reset_prediction", prophet_fare_df)>>
                /\ UNCHANGED <<df, cached, line_chart>>
           ELSE IF RouteIneligible(years, fcst)
           THEN /\ notice' = IneligibleNotice
                /\ steps' = <<Step("reset_prediction", prophet_fare_df)>>
                /\ df' = StoreAfterTimeSeries(df)
                /\ UNCHANGED <<cached, line_chart>>
           ELSE /\ notice' = << >>
                /\ df' = StoreAfterLineChart(StoreAfterTimeSeries(df), origin, destination)
                /\ prophet_fare_df' = fare_df
                /\ prophet_fare_lg_df' = fare_lg_df
                /\ prophet_fare_low_df' = fare_low_df
                /\ line_chart' = RedrawLineChart(df, origin, dropdown_destination,
                                                 fare_df, fare_lg_df, fare_low_df)
                /\ steps' = <<Step("reset_prediction", prophet_fare_df),
                              Step("store_forecast", fare_df),
                              Step("line_chart", fare_df)>>

\* pd.get_dummies(input_df, columns=[...], prefix=[...]) of the one-row frame:
\* one column per selected level, holding 1.
GetDummies(origin, destination, season) ==
    << [col |-> Column("airport_name_concat_1", origin), val |-> 1],
       [col |-> Column("airport_name_concat_2", destination), val |-> 1],
       [col |-> Column("season", season), val |-> 1] >>

\* missing_cols: the training columns that are not in the encoded frame, each
\* holding 0.
MissingCols(encoded, columns) ==
    LET Absent(c) == \A k \in 1..Len(encoded) : encoded[k].col # c
        missing == SelectSeq(columns, Absent)
    IN  [k \in 1..Len(missing) |-> [col |-> missing[k], val |-> 0]]

\* Mutant of ReorderColumns: the columns are left as they are.
KeepColumnOrder(encoded, columns) == encoded

\* input_df_encoded[self.decision_forest_model_columns]
ReorderColumns(encoded, columns) ==
    [k \in 1..Len(columns) |->
        encoded[CHOOSE j \in 1..Len(encoded) : encoded[j].col = columns[k]]]

\* Decision Tree / Random Forest: the selection itself, one-hot encoded.
AnalyzeTree ==
    LET origin == dropdown_origin.value
        destination == dropdown_destination.value
        season == dropdown_season.value
    IN  /\ dropdown_ml_model.value \in {"Decision Tree", "Random Forest"}
        /\ IF TreeInputsMissing(origin, destination, season)
           THEN /\ notice' =
                      <<"Please select valid Origin and Destination and Season from dropdown.">>
                /\ invoked' = NotInvoked
                /\ steps' = << >>
                /\ UNCHANGED analysis_results
           ELSE /\ \E prediction \in PredictedPrices :
                      analysis_results' = UpdateAnalysisResults(prediction)
                /\ invoked' =
                       [model |-> dropdown_ml_model.value, row |-> 0, features |-> << >>,
                        encoded |-> LET input_df_encoded ==
                                            GetDummies(origin, destination, season)
                                    IN  ReorderColumns(
                                            input_df_encoded
                                                \o MissingCols(input_df_encoded,
                                                               decision_forest_model_columns),
                                            decision_forest_model_columns)]
                /\ notice' = << >>
                /\ steps' = <<Step("update_analysis_results", prophet_fare_df)>>
        /\ UNCHANGED <<df, cached, line_chart>>

\* Mutant of ErrorNotice: nothing is printed.
NoNotice == << >>

\* print('Error')
ErrorNotice == <<"Error">>

\* Any other model selection.
AnalyzeUnrecognised ==
    /\ dropdown_ml_model.value \notin
           {"XGBoost", "CatBoost", "FB Prophet", "Decision Tree", "Random Forest"}
    /\ notice' = ErrorNotice
    /\ invoked' = NotInvoked
    /\ steps' = << >>
    /\ UNCHANGED <<df, analysis_results, cached, line_chart>>

HandleAnalyzeButtonClick ==
    /\ \/ AnalyzeBoosted
       \/ AnalyzeProphet
       \/ AnalyzeTree
       \/ AnalyzeUnrecognised
    /\ last_event' = "analyze"
    /\ failed' = FALSE
    /\ UNCHANGED <<tables, widgets, choropleth, histogram, seasonal_boxplot,
                   lg_bar_chart, low_bar_chart>>

Next ==
    \/ HandleOriginInputChange
    \/ HandleDestinationInputChange
    \/ HandleSeasonInputChange
    \/ HandleMlModelInputChange
    \/ HandleAnalyzeButtonClick

Spec == Init /\ [][Next]_vars

(***************************************************************************)
(* Properties.                                                             *)
(***************************************************************************)
Origins(d) == { d[i].airport_name_concat_1 : i \in 1..Len(d) }

Destinations(d) == { d[i].airport_name_concat_2 : i \in 1..Len(d) }

\* The rows of d a selection asks for: an empty field asks for nothing.
Matches(d, i, origin, destination, season, filter_season) ==
    /\ origin # "" => d[i].airport_name_concat_1 = origin
    /\ destination # "" => d[i].airport_name_concat_2 = destination
    /\ (filter_season /\ season # "") => d[i].season = season

\* The filter's output for a selection is exactly the matching rows, each
\* once and in the Data Store's order.
FilterExact(d, origin, destination, season, filter_season) ==
    LET out == GetFilteredData(d, origin, destination, season, filter_season)
    IN  /\ Range(out) = { i \in 1..Len(d) :
                            Matches(d, i, origin, destination, season, filter_season) }
        /\ \A j, k \in 1..Len(out) : j < k => out[j] < out[k]
        /\ (origin = "" /\ destination = "" /\ (season = "" \/ ~filter_season))
               => out = AllRows(d)
        /\ (origin # "" /\ destination # "")
               => \A k \in 1..Len(out) :
                      /\ d[out[k]].airport_name_concat_1 = origin
                      /\ d[out[k]].airport_name_concat_2 = destination

\* C1: for every selection and every Data Store, _get_filtered_data returns
\* exactly the records that equal each non-empty field (the season only when
\* season filtering is requested); with all fields empty it returns the full
\* Data Store, and with origin and destination set every record matches
\* both.  Stated of the current selection in every state, and of every
\* selection over the airports and seasons at startup.
C1_FilterContract ==
    /\ \A fs \in BOOLEAN :
           FilterExact(df, dropdown_origin.value, dropdown_destination.value,
                       dropdown_season.value, fs)
    /\ last_event = "build" =>
           \A o \in Range(AirportOrder) \cup {""}, dst \in Range(AirportOrder) \cup {""},
              s \in Range(SeasonOptions), fs \in BOOLEAN :
               FilterExact(df, o, dst, s, fs)

\* C1 witness: the histogram was just redrawn from a route-and-season
\* filter that keeps some rows and drops others.
C1_Witness ==
    /\ last_event = "season"
    /\ ~failed
    /\ dropdown_origin.value # ""
    /\ dropdown_destination.value # ""
    /\ dropdown_season.value # ""
    /\ histogram.rows # << >>
    /\ histogram.rows = GetFilteredData(df, dropdown_origin.value,
                                        dropdown_destination.value,
                                        dropdown_season.value, TRUE)
    /\ Len(histogram.rows) < Len(line_chart.rows)

\* C2 (as claimed): each of the five filter-driven charts is drawn with
\* non-zero opacity exactly when origin and destination are both set.
C2_VisibleIffRouteSet ==
    LET route_set == dropdown_origin.value # "" /\ dropdown_destination.value # ""
    IN  /\ (histogram.alpha # 0) <=> route_set
        /\ (line_chart.alpha # 0) <=> route_set
        /\ (seasonal_boxplot.alpha # 0) <=> route_set
        /\ (lg_bar_chart.alpha # 0) <=> route_set
        /\ (low_bar_chart.alpha # 0) <=> route_set

\* An option list is the empty option followed by exactly `names`, each
\* once, in ascending order.
IsOptionList(options, names) ==
    /\ Len(options) = Cardinality(names) + 1
    /\ options[1] = ""
    /\ { options[k] : k \in 2..Len(options) } = names
    /\ \A j, k \in 2..Len(options) :
           j < k => \E a, b \in 1..Len(AirportOrder) :
                        a < b /\ AirportOrder[a] = options[j] /\ AirportOrder[b] = options[k]

\* C3: after an origin change to v the destination options are the empty
\* option plus exactly the destinations that co-occur with v (all
\* destinations of the Data Store when v is empty); symmetrically for a
\* destination change and the origin options.
C3_OptionsRecomputed ==
    /\ last_event = "origin" =>
           LET v == dropdown_origin.value
           IN  IsOptionList(dropdown_destination.options,
                            IF v = ""
                            THEN Destinations(df)
                            ELSE { x \in Destinations(df) :
                                     \E i \in 1..Len(df) :
                                         /\ df[i].airport_name_concat_1 = v
                                         /\ df[i].airport_name_concat_2 = x })
    /\ last_event = "destination" =>
           LET v == dropdown_destination.value
           IN  IsOptionList(dropdown_origin.options,
                            IF v = ""
                            THEN Origins(df)
                            ELSE { x \in Origins(df) :
                                     \E i \in 1..Len(df) :
                                         /\ df[i].airport_name_concat_2 = v
                                         /\ df[i].airport_name_concat_1 = x })

\* C3 witness: the origin was just cleared and every destination of the Data
\* Store is offered again.
C3_Witness ==
    /\ last_event = "origin"
    /\ dropdown_origin.value = ""
    /\ Range(dropdown_destination.options) = Destinations(df) \cup {""}
    /\ Cardinality(Destinations(df)) > 1

\* C4: each selection value is empty or a value of the Data Store (season
\* and model: of the fixed list), and the origin and destination values are
\* members of their widgets' current option lists.
C4_SelectionValid ==
    /\ dropdown_origin.value \in Origins(df) \cup {""}
    /\ dropdown_destination.value \in Destinations(df) \cup {""}
    /\ dropdown_season.value \in {"", "Spring", "Summer", "Fall", "Winter"}
    /\ dropdown_ml_model.value \in
           {"", "FB Prophet", "Random Forest", "Decision Tree", "XGBoost", "CatBoost"}
    /\ dropdown_origin.value \in Range(dropdown_origin.options)
    /\ dropdown_destination.value \in Range(dropdown_destination.options)

\* C4 witness: with an origin selected, the destination callback has just cut
\* the origin options down to a shorter list that still holds the origin.
C4_Witness ==
    /\ last_event = "destination"
    /\ dropdown_origin.value # ""
    /\ dropdown_destination.value # ""
    /\ Range(dropdown_origin.options) # Origins(df) \cup {""}
    /\ dropdown_origin.value \in Range(dropdown_origin.options)

StepNames == [k \in 1..Len(steps) |-> steps[k].step]

IsPrefix(s, t) == Len(s) <= Len(t) /\ s = SubSeq(t, 1, Len(s))

\* C5 (as claimed): an origin or destination change recomputes the options,
\* then clears the cached forecast, then re-runs all six charts, so no chart
\* of the cascade runs while a forecast is still cached.
C5_ClearedBeforeAnyChart ==
    last_event \in {"origin", "destination"} =>
        /\ StepNames = <<"options", "clear_forecast", "choropleth", "histogram",
                         "line_chart", "seasonal_boxplot", "lg_bar_chart",
                         "low_bar_chart">>
        /\ \A k \in 2..Len(steps) : ~steps[k].cached

\* C5 (amended): the callback's steps are a prefix of: options, choropleth,
\* histogram, clear forecast, line chart, seasonal box plot, largest-carrier
\* bar chart, lowest-cost-carrier bar chart; the prefix is the whole list
\* unless the histogram raised, in which case it ends before the histogram;
\* the forecast is cleared before the line chart and every later chart
\* runs, and when the callback completes all three cached series are gone
\* and every chart shows the new selection.
C5_RouteCallbackOrder ==
    last_event \in {"origin", "destination"} =>
        LET whole == <<"options", "choropleth", "histogram", "clear_forecast",
                       "line_chart", "seasonal_boxplot", "lg_bar_chart",
                       "low_bar_chart">>
        IN  /\ IsPrefix(StepNames, whole)
            /\ failed => StepNames = <<"options", "choropleth">>
            /\ ~failed => StepNames = whole
            /\ \A k \in 1..Len(steps) :
                   steps[k].step \in {"clear_forecast", "line_chart", "seasonal_boxplot",
                                      "lg_bar_chart", "low_bar_chart"}
                       => ~steps[k].cached
            /\ ~failed =>
                   /\ prophet_fare_df = None
                   /\ prophet_fare_lg_df = None
                   /\ prophet_fare_low_df = None
                   /\ ~line_chart.has_prophet
                   /\ line_chart.rows = GetFilteredData(df, dropdown_origin.value,
                                                        dropdown_destination.value, "", FALSE)
                   /\ histogram.rows = GetFilteredData(df, dropdown_origin.value,
                                                       dropdown_destination.value,
                                                       dropdown_season.value, TRUE)
                   /\ lg_bar_chart.rows = histogram.rows
                   /\ low_bar_chart.rows = histogram.rows
                   /\ seasonal_boxplot.rows = Range(line_chart.rows)
            /\ choropleth.origin_marker = dropdown_origin.value
            /\ choropleth.dest_marker = dropdown_destination.value

\* C5 witness: a completed origin change that began with a forecast cached:
\* the choropleth and the histogram ran before it was cleared.
C5_Witness ==
    /\ last_event = "origin"
    /\ ~failed
    /\ Len(steps) = 8
    /\ steps[2].cached
    /\ steps[3].cached
    /\ ~steps[5].cached
    /\ prophet_fare_df = None

\* C6 (as claimed): a season change resets the displayed prediction,
\* re-runs the histogram and both bar charts, and leaves choropleth, line
\* chart, seasonal box plot, cached forecast, option lists and the
\* origin, destination and model values unchanged.
C6_SeasonChange ==
    [][last_event' = "season" =>
          /\ analysis_results' = PlaceholderText
          /\ histogram' = RedrawHistogram(df, dropdown_origin.value, dropdown_destination,
                                          dropdown_season'.value)
          /\ lg_bar_chart' = RedrawBarChart(df, dropdown_origin.value, dropdown_destination,
                                            dropdown_season'.value, "lg")
          /\ low_bar_chart' = RedrawBarChart(df, dropdown_origin.value, dropdown_destination,
                                             dropdown_season'.value, "low")
          /\ UNCHANGED <<choropleth, line_chart, seasonal_boxplot, cached,
                         dropdown_origin, dropdown_destination, dropdown_ml_model>>]_vars

\* C7: right after a model change the displayed prediction is the
\* placeholder, all three cached series are cleared, and the line chart was
\* re-run after the clearing, so it shows no forecast overlay.
C7_ModelChange ==
    last_event = "ml_model" =>
        /\ analysis_results = PlaceholderText
        /\ prophet_fare_df = None
        /\ prophet_fare_lg_df = None
        /\ prophet_fare_low_df = None
        /\ StepNames = <<"reset_prediction", "clear_forecast", "line_chart">>
        /\ ~steps[3].cached
        /\ ~line_chart.has_prophet
        /\ line_chart.prophet = << >>
        /\ line_chart.rows = GetFilteredData(df, dropdown_origin.value,
                                             dropdown_destination.value, "", FALSE)
        /\ ~failed

\* C7 witness: a model change made while a forecast was cached.
C7_Witness ==
    /\ last_event = "ml_model"
    /\ steps[1].cached
    /\ dropdown_ml_model.value # "FB Prophet"
    /\ ~line_chart.has_prophet

\* C8: analyze with Decision Tree or Random Forest and origin, destination
\* or season unset prints the input error, calls no model and changes
\* neither the displayed prediction, the cached forecast nor any chart.
C8_TreeInputError ==
    [][(/\ last_event' = "analyze"
        /\ dropdown_ml_model.value \in {"Decision Tree", "Random Forest"}
        /\ \/ dropdown_origin.value = ""
           \/ dropdown_destination.value = ""
           \/ dropdown_season.value = "")
       => /\ notice' =
                <<"Please select valid Origin and Destination and Season from dropdown.">>
          /\ invoked' = NotInvoked
          /\ ~failed'
          /\ UNCHANGED <<analysis_results, cached, charts>>]_vars

\* C8 witness: the input error was reported after the route was cleared,
\* and the estimate of an earlier analyze is still displayed.
C8_Witness ==
    /\ last_event = "analyze"
    /\ dropdown_ml_model.value \in {"Decision Tree", "Random Forest"}
    /\ dropdown_origin.value = "" \/ dropdown_destination.value = ""
    /\ dropdown_season.value # ""
    /\ notice = <<"Please select valid Origin and Destination and Season from dropdown.">>
    /\ invoked = NotInvoked
    /\ analysis_results # PlaceholderText

\* The years of the Data Store's records of the selected route.
RouteYears ==
    { df[i].year : i \in { j \in 1..Len(df) :
                             /\ df[j].airport_name_concat_1 = dropdown_origin.value
                             /\ df[j].airport_name_concat_2 = dropdown_destination.value } }

\* The forecast table the dispatcher consults holds nothing for the route.
NoForecastForRoute ==
    LET src == FirstToken(dropdown_origin.value)
        dst == FirstToken(dropdown_destination.value)
    IN  IF src \in multi_airport_codes \/ dst \in multi_airport_codes
        THEN RouteKey(src, dst) \notin DOMAIN prophet_fare_dfs2
        ELSE RouteKey(src, dst) \notin DOMAIN prophet_fare_dfs

\* C9: analyze with FB Prophet on a selected route that is ineligible (the
\* route's last year is not 2024, or the consulted table has no forecast)
\* prints the ineligible notice, raises nothing, and leaves the displayed
\* prediction, the cached forecast and the line chart as they were.
C9_ProphetIneligible ==
    [][(/\ last_event' = "analyze"
        /\ dropdown_ml_model.value = "FB Prophet"
        /\ dropdown_origin.value # ""
        /\ dropdown_destination.value # ""
        /\ \/ \A y \in RouteYears : y # 2024
           \/ \E y \in RouteYears : y > 2024
           \/ NoForecastForRoute)
       => /\ notice' = IneligibleNotice
          /\ invoked' = NotInvoked
          /\ ~failed'
          /\ UNCHANGED <<analysis_results, cached, line_chart>>]_vars

\* C9 witness: the ineligible notice was printed for a route whose records
\* end before 2024 although the table holds a forecast for it.
C9_Witness ==
    /\ last_event = "analyze"
    /\ dropdown_ml_model.value = "FB Prophet"
    /\ dropdown_origin.value # ""
    /\ dropdown_destination.value # ""
    /\ \A y \in RouteYears : y < 2024
    /\ ~NoForecastForRoute
    /\ notice = IneligibleNotice
    /\ prophet_fare_df = None

\* C10 (as claimed): no callback raises, and whenever the filtered record
\* set of the current selection is empty the histogram and both bar charts
\* show that empty set.
C10_EmptyFilterHandled ==
    /\ ~failed
    /\ GetFilteredData(df, dropdown_origin.value, dropdown_destination.value,
                       dropdown_season.value, TRUE) = << >>
           => /\ histogram.rows = << >>
              /\ lg_bar_chart.rows = << >>
              /\ low_bar_chart.rows = << >>

\* C11 (as claimed): analyze with XGBoost or CatBoost while the Data Store
\* filtered to the current selection (origin, destination and season, each
\* where set) is empty calls no model, displays the placeholder estimate
\* and raises nothing.
C11_BoostedEmptyFilter ==
    [][(/\ last_event' = "analyze"
        /\ dropdown_ml_model.value \in {"XGBoost", "CatBoost"}
        /\ GetFilteredData(df, dropdown_origin.value, dropdown_destination.value,
                           dropdown_season.value, TRUE) = << >>)
       => /\ invoked' = NotInvoked
          /\ analysis_results' = PlaceholderText
          /\ ~failed']_vars

\* The carriers of a chart's rows.
CarriersOf(d, rows, name_col) == { d[rows[k]][name_col] : k \in 1..Len(rows) }

\* What a bar chart must show of `rows`: at most 10 carriers, each once, each
\* with the exact mean of its rows and a positive one, in non-increasing
\* order of mean; a carrier of positive mean is left out only when 10 are
\* shown, none of them with a smaller mean; and the list is the first 10 of
\* the positive means sorted descending.
BarChartContract(bars, d, rows, name_col, col) ==
    LET shown == { bars[k].name : k \in 1..Len(bars) }
        RowsOf(c) == { k \in 1..Len(rows) : d[rows[k]][name_col] = c }
        MeanOf(c) ==
            LET Is(i) == d[i][name_col] = c
                group == SelectSeq(rows, Is)
            IN  [name |-> c, total |-> ColumnSum(d, group, col), count |-> Len(group)]
        positive == KeepPositive(GroupMeans(d, rows, name_col, col))
    IN  /\ Len(bars) <= 10
        /\ Cardinality(shown) = Len(bars)
        /\ shown \subseteq CarriersOf(d, rows, name_col)
        /\ \A k \in 1..Len(bars) :
               /\ bars[k] = MeanOf(bars[k].name)
               /\ bars[k].count = Cardinality(RowsOf(bars[k].name))
               /\ bars[k].total > 0
        /\ \A j, k \in 1..Len(bars) : j < k => ~MeanGreater(bars[k], bars[j])
        /\ \A c \in CarriersOf(d, rows, name_col) \ shown :
               MeanOf(c).total > 0
                   => /\ Len(bars) = 10
                      /\ \A k \in 1..Len(bars) : ~MeanGreater(MeanOf(c), bars[k])
        /\ bars = SubSeq(SortDescending(positive), 1,
                         IF Len(positive) < 10 THEN Len(positive) ELSE 10)

\* C12: for every selection and both carrier variants the bar chart shows at
\* most 10 carriers, sorted by non-increasing mean fare, all of strictly
\* positive mean, and equal to the first 10 of the positive means sorted
\* descending.  Stated of both charts in every state, and of every
\* selection at startup.
C12_BarChartTopTen ==
    /\ BarChartContract(lg_bar_chart.bars, df, lg_bar_chart.rows,
                        "carrier_lg_name_concat", "fare_lg")
    /\ BarChartContract(low_bar_chart.bars, df, low_bar_chart.rows,
                        "carrier_low_name_concat", "fare_low")
    /\ last_event = "build" =>
           \A o \in Range(AirportOrder) \cup {""}, dst \in Range(AirportOrder) \cup {""},
              s \in Range(SeasonOptions) :
               LET lg == RedrawBarChart(df, o, [value |-> dst], s, "lg")
                   low == RedrawBarChart(df, o, [value |-> dst], s, "low")
               IN  /\ BarChartContract(lg.bars, df, lg.rows,
                                       "carrier_lg_name_concat", "fare_lg")
                   /\ BarChartContract(low.bars, df, low.rows,
                                       "carrier_low_name_concat", "fare_low")

\* C12 witness: an origin was just picked whose rows have more than 10
\* largest carriers, of which 10 are shown, and more than 10 lowest-cost
\* carriers, two of them with a mean fare of zero: one of these is among the
\* first 10 and is dropped after the cut.
C12_Witness ==
    /\ last_event = "origin"
    /\ ~failed
    /\ lg_bar_chart.rows = GetFilteredData(df, dropdown_origin.value,
                                           dropdown_destination.value,
                                           dropdown_season.value, TRUE)
    /\ Cardinality(CarriersOf(df, lg_bar_chart.rows, "carrier_lg_name_concat")) > 10
    /\ Len(lg_bar_chart.bars) = 10
    /\ Cardinality(CarriersOf(df, low_bar_chart.rows, "carrier_low_name_concat")) > 10
    /\ Len(low_bar_chart.bars) = 9
    /\ Cardinality({ k \in 1..Len(low_bar_chart.rows) :
                       df[low_bar_chart.rows[k]].fare_low = 0 }) = 2

\* The mean v lies in bin b of the 6 equal bins over
\* [lo - 0.001, hi + 0.001]: above the bin's lower bound and at most its
\* upper bound.  Every term is multiplied by 6000 and the three counts.
WithinBin(v, lo, hi, b) ==
    LET value == 6000 * v.total * lo.count * hi.count
        Bound(k) == v.count * ((6 - k) * (1000 * lo.total - lo.count) * hi.count
                               + k * (1000 * hi.total + hi.count) * lo.count)
    IN  Bound(b) < value /\ value <= Bound(b + 1)

\* A choropleth drawn for `origin`: 6 bins, and each destination state of
\* the origin's rows, with the exact mean fare of these rows, in the bin
\* that contains its mean.
ChoroplethContract(c, d, origin) ==
    LET rows == { i \in 1..Len(d) : d[i].airport_name_concat_1 = origin }
        states == { d[i].state_2 : i \in rows }
    IN  /\ c.bins = 6
        /\ DOMAIN c.colors = states
        /\ DOMAIN c.fares = states
        /\ \A st \in states :
               LET InState(i) == i \in rows /\ d[i].state_2 = st
                   group == SelectSeq(AllRows(d), InState)
               IN  /\ c.fares[st].total = ColumnSum(d, group, "fare")
                   /\ c.fares[st].count = Len(group)
        /\ \E lo, hi \in states :
               /\ \A st \in states :
                      /\ ~MeanGreater(c.fares[lo], c.fares[st])
                      /\ ~MeanGreater(c.fares[st], c.fares[hi])
               /\ \A st \in states :
                      /\ c.colors[st] \in 0..5
                      /\ WithinBin(c.fares[st], c.fares[lo], c.fares[hi], c.colors[st])

\* C13: for an origin whose per-state mean-fare aggregate is non-empty, a
\* single state included, the choropleth has exactly 6 bins, linearly
\* spaced over [min - eps, max + eps], and every state with data has the
\* bin index in 0..5 whose bounds contain its mean fare.  Stated of the
\* choropleth shown in every state, and of every origin at startup.
C13_ChoroplethBins ==
    /\ choropleth.origin_marker # "" =>
           ChoroplethContract(choropleth, df, choropleth.origin_marker)
    /\ last_event = "build" =>
           \A o \in Origins(df) :
               ChoroplethContract(UpdateChoropleth(df, o, ""), df, o)

\* C13 witness: the origin just picked flies to a single state, so that the
\* smallest and the largest mean are the same and the state's mean sits in
\* the middle of the 6 bins.
C13_Witness ==
    /\ last_event = "origin"
    /\ choropleth.origin_marker = LAX
    /\ choropleth.origin_marker = dropdown_origin.value
    /\ choropleth.bins = 6
    /\ DOMAIN choropleth.colors = {"California"}
    /\ choropleth.colors["California"] = 2

\* The last historical date of the rows a line chart was drawn from.
LastHistoricalDate(d, rows) ==
    CHOOSE date \in { QuarterEnd(d[rows[k]].year, d[rows[k]].quarter) : k \in 1..Len(rows) } :
        \A k \in 1..Len(rows) : QuarterEnd(d[rows[k]].year, d[rows[k]].quarter) <= date

\* C14: a line chart drawn with a cached forecast shows three overlay series
\* (overall, largest carrier, lowest-cost carrier), each made of exactly the
\* points of its cached series dated at or after the last historical date
\* of the route it was drawn for: no overlay point precedes that date.  The
\* chart drawn by analyze is drawn for the currently selected route.
C14_OverlayFromLastDate ==
    line_chart.has_prophet =>
        /\ line_chart.rows # << >>
        /\ Len(line_chart.prophet) = 3
        /\ \A s \in 1..3 :
               \A k \in 1..Len(line_chart.prophet[s]) :
                   line_chart.prophet[s][k].ds >= LastHistoricalDate(df, line_chart.rows)
        /\ (last_event = "analyze" /\ dropdown_ml_model.value = "FB Prophet"
               /\ notice = << >>) =>
               /\ line_chart.rows = GetFilteredData(df, dropdown_origin.value,
                                                    dropdown_destination.value, "", FALSE)
               /\ \A k \in 1..Len(prophet_fare_df) :
                      prophet_fare_df[k].ds >= LastHistoricalDate(df, line_chart.rows)
                          => \E j \in 1..Len(line_chart.prophet[1]) :
                                 line_chart.prophet[1][j] = prophet_fare_df[k]

\* C14 witness: analyze has just drawn the line chart with a forecast whose
\* first point is dated before the route's last record, and left that point
\* and the earlier records out of the overlay.
C14_Witness ==
    /\ last_event = "analyze"
    /\ line_chart.has_prophet
    /\ prophet_fare_df # None
    /\ \E k \in (Len(line_chart.rows) + 1)..Len(prophet_fare_df) :
           prophet_fare_df[k].ds < LastHistoricalDate(df, line_chart.rows)
    /\ line_chart.prophet[1] # << >>
    /\ \A j \in 1..Len(line_chart.prophet[1]) :
           line_chart.prophet[1][j] # prophet_fare_df[Len(line_chart.rows) + 1]

\* total / count of `m` is at least y.
AtLeast(m, y) == m.total >= y * m.count

\* C20 (as claimed): the upper y-axis bound of a line chart drawn with a
\* cached forecast is at least the largest value of every plotted series:
\* of each of the three overlay series and of each of the three historical
\* series.
C20_NoSeriesClipped ==
    line_chart.has_prophet =>
        /\ \A s \in 1..3 :
               \A k \in 1..Len(line_chart.prophet[s]) :
                   AtLeast(line_chart.ylim, line_chart.prophet[s][k].y)
        /\ \A k \in 1..Len(line_chart.rows) :
               /\ AtLeast(line_chart.ylim, df[line_chart.rows[k]].fare)
               /\ AtLeast(line_chart.ylim, df[line_chart.rows[k]].fare_lg)
               /\ AtLeast(line_chart.ylim, df[line_chart.rows[k]].fare_low)

\* C15: analyze with a model selection that is none of the five recognised
\* models (the empty selection is the one the widget offers) prints the
\* generic error notice and computes nothing: no model is called, nothing
\* raises, and the displayed prediction, the cached forecast, the option
\* lists, the selection and every chart are unchanged.
C15_UnrecognisedModel ==
    [][(/\ last_event' = "analyze"
        /\ dropdown_ml_model.value \notin
               {"XGBoost", "CatBoost", "FB Prophet", "Decision Tree", "Random Forest"})
       => /\ notice' = <<"Error">>
          /\ invoked' = NotInvoked
          /\ ~failed'
          /\ UNCHANGED <<analysis_results, cached, widgets, charts>>]_vars

\* C15 witness: the error notice was printed for the empty model selection
\* with a route and a season selected.
C15_Witness ==
    /\ last_event = "analyze"
    /\ dropdown_ml_model.value = ""
    /\ notice = <<"Error">>
    /\ invoked = NotInvoked
    /\ dropdown_origin.value # ""
    /\ dropdown_destination.value # ""
    /\ dropdown_season.value # ""

\* C16: no widget-change or analyze event modifies the Data Store or any of
\* the three forecast tables: every step leaves them as they were at
\* startup, also the steps whose chart builders write a date column or a
\* recoded season into the filtered rows.
C16_InputsImmutable ==
    [][/\ df' = df
       /\ prophet_fare_dfs' = prophet_fare_dfs
       /\ prophet_farelg_dfs' = prophet_farelg_dfs
       /\ prophet_farelow_dfs' = prophet_farelow_dfs]_vars

\* C16 witness: the line chart was just redrawn with nothing selected, so
\* that no filter applied and the date column was written into the frame
\* that _get_filtered_data copied from the Data Store; the store still has
\* its original rows.
C16_Witness ==
    /\ last_event = "ml_model"
    /\ dropdown_origin.value = ""
    /\ dropdown_destination.value = ""
    /\ line_chart.rows = AllRows(df)
    /\ df \in DataStores
    /\ prophet_fare_dfs = FareForecast

\* C17 (as claimed): the record the XGBoost or CatBoost input is built from
\* matches the selected origin, the selected destination and the selected
\* season, wherever each is set.
C17_BoostedInputMatchesSelection ==
    (last_event = "analyze" /\ invoked.model \in {"XGBoost", "CatBoost"}) =>
        /\ invoked.row \in 1..Len(df)
        /\ dropdown_origin.value # ""
               => df[invoked.row].airport_name_concat_1 = dropdown_origin.value
        /\ dropdown_destination.value # ""
               => df[invoked.row].airport_name_concat_2 = dropdown_destination.value
        /\ dropdown_season.value # ""
               => df[invoked.row].season = dropdown_season.value

\* The category the code gives a distance: the bins are closed on the right.
RightClosedBin(n) ==
    CASE 0 < n /\ n <= 500 -> "short"
      [] 500 < n /\ n <= 1500 -> "medium"
      [] 1500 < n /\ n <= 3000 -> "long"
      [] 3000 < n /\ n <= 6000 -> "ultra"
      [] OTHER -> "NaN"

\* C18 (as claimed): a distance d is 'short' when d < 500, 'medium' when
\* 500 <= d < 1500, 'long' when 1500 <= d < 3000 and 'ultra' when
\* 3000 <= d < 6000, for every integer distance in 0..6000.
C18_DistanceBinsLeftClosed ==
    last_event = "build" =>
        \A n \in 0..6000 :
            /\ n < 500 => DistanceBin(n) = "short"
            /\ (500 <= n /\ n < 1500) => DistanceBin(n) = "medium"
            /\ (1500 <= n /\ n < 3000) => DistanceBin(n) = "long"
            /\ (3000 <= n /\ n < 6000) => DistanceBin(n) = "ultra"

\* C18 (amended): a distance d is 'short' when 0 < d <= 500, 'medium' when
\* 500 < d <= 1500, 'long' when 1500 < d <= 3000, 'ultra' when
\* 3000 < d <= 6000 and has no category when d = 0; for every integer
\* distance in 0..6000, and for the record of every XGBoost or CatBoost
\* input.
C18_DistanceBinsRightClosed ==
    /\ last_event = "build" =>
           \A n \in 0..6000 : DistanceBin(n) = RightClosedBin(n)
    /\ invoked.model \in {"XGBoost", "CatBoost"} =>
           invoked.features.distance_bin = RightClosedBin(df[invoked.row].nsmiles)

\* C18 witness: a model was just called on a record whose distance is the
\* edge 1500, binned 'medium'.
C18_Witness ==
    /\ last_event = "analyze"
    /\ invoked.model \in {"XGBoost", "CatBoost"}
    /\ df[invoked.row].nsmiles = 1500
    /\ invoked.features.distance_bin = "medium"

\* C19: the row passed to Decision Tree or Random Forest has exactly the
\* training columns in the training order, with 1 in the column of each
\* selected level that is a training column and 0 in every other column; a
\* selected level that is no training column contributes no column.
C19_OneHotRow ==
    (last_event = "analyze" /\ invoked.model \in {"Decision Tree", "Random Forest"}) =>
        LET selected == { <<"airport_name_concat_1", "_", dropdown_origin.value>>,
                          <<"airport_name_concat_2", "_", dropdown_destination.value>>,
                          <<"season", "_", dropdown_season.value>> }
        IN  /\ dropdown_origin.value # ""
            /\ dropdown_destination.value # ""
            /\ dropdown_season.value # ""
            /\ Len(invoked.encoded) = Len(decision_forest_model_columns)
            /\ \A k \in 1..Len(invoked.encoded) :
                   /\ invoked.encoded[k].col = decision_forest_model_columns[k]
                   /\ invoked.encoded[k].col \in selected => invoked.encoded[k].val = 1
                   /\ invoked.encoded[k].col \notin selected => invoked.encoded[k].val = 0

\* C19 witness: a model was just called for a destination that is a training
\* column, but not the first one, and a season that is none: the season
\* columns are all 0.
C19_Witness ==
    /\ last_event = "analyze"
    /\ invoked.model \in {"Decision Tree", "Random Forest"}
    /\ dropdown_season.value = "Fall"
    /\ dropdown_destination.value = ORD
    /\ \E k \in 1..Len(invoked.encoded) :
           /\ invoked.encoded[k].val = 1
           /\ invoked.encoded[k].col = <<"airport_name_concat_2", "_", ORD>>
    /\ \A k \in 1..Len(invoked.encoded) :
           invoked.encoded[k].col[1] = "season" => invoked.encoded[k].val = 0

\* The Data Store's rows of the selected route, whatever their season.
RouteRows ==
    { i \in 1..Len(df) :
        /\ df[i].airport_name_concat_1 = dropdown_origin.value
        /\ df[i].airport_name_concat_2 = dropdown_destination.value }

\* The forecast records the primary table `table` holds for the selected route.
RouteForecast(table) ==
    table[RouteKey(FirstToken(dropdown_origin.value),
                   FirstToken(dropdown_destination.value))]

\* `series` is the selected route's observations of column `col` in date
\* order, one point per record, followed by the forecast records of `table`.
IsHistoryThenForecast(series, col, table) ==
    LET n == Cardinality(RouteRows)
        fcst == RouteForecast(table)
    IN  /\ Len(series) = n + Len(fcst)
        /\ \A k \in 1..n :
               \E i \in RouteRows : series[k] = [ds |-> RowDate(df, i), y |-> df[i][col]]
        /\ \A i \in RouteRows :
               \E k \in 1..n : series[k] = [ds |-> RowDate(df, i), y |-> df[i][col]]
        /\ \A k \in 1..(n - 1) : series[k].ds <= series[k + 1].ds
        /\ \A k \in 1..Len(fcst) :
               series[n + k] = [ds |-> fcst[k].ds, y |-> fcst[k].yhat]

\* C21: analyze with FB Prophet on a selected, eligible route (records up to
\* 2024 and a forecast in the consulted table; the season may be unset)
\* stores three series (overall, largest carrier, lowest-cost carrier), each
\* the route's observations in date order followed by that series' forecast
\* records, then re-runs the line chart with them, and leaves the
\* placeholder as the displayed prediction.  With origin or destination
\* unset nothing is stored and the line chart is not re-run.
C21_ProphetStoresSeries ==
    [][(last_event' = "analyze" /\ dropdown_ml_model.value = "FB Prophet")
       => /\ (dropdown_origin.value = "" \/ dropdown_destination.value = "")
                 => /\ UNCHANGED <<cached, line_chart>>
                    /\ \A k \in 1..Len(steps') : steps'[k].step # "line_chart"
          /\ (/\ dropdown_origin.value # ""
              /\ dropdown_destination.value # ""
              /\ \E y \in RouteYears : y = 2024
              /\ \A y \in RouteYears : y <= 2024
              /\ ~NoForecastForRoute)
                 => /\ IsHistoryThenForecast(prophet_fare_df', "fare", prophet_fare_dfs)
                    /\ IsHistoryThenForecast(prophet_fare_lg_df', "fare_lg",
                                             prophet_farelg_dfs)
                    /\ IsHistoryThenForecast(prophet_fare_low_df', "fare_low",
                                             prophet_farelow_dfs)
                    /\ steps'[Len(steps')].step = "line_chart"
                    /\ line_chart'.has_prophet
                    /\ line_chart'.rows = GetFilteredData(df, dropdown_origin.value,
                                                          dropdown_destination.value,
                                                          "", FALSE)
                    /\ \A k \in 1..Len(RouteForecast(prophet_fare_dfs)) :
                           LET p == prophet_fare_df'[Cardinality(RouteRows) + k]
                           IN  p.ds >= MaxDate(df, line_chart'.rows)
                                   => \E j \in 1..Len(line_chart'.prophet[1]) :
                                          line_chart'.prophet[1][j] = p
                    /\ analysis_results' = PlaceholderText]_vars

\* C21 witness: analyze has stored the three series of a route whose records
\* are not in date order in the Data Store, with no season selected.
C21_Witness ==
    /\ last_event = "analyze"
    /\ dropdown_ml_model.value = "FB Prophet"
    /\ dropdown_season.value = ""
    /\ prophet_fare_df # None
    /\ prophet_fare_lg_df # None
    /\ prophet_fare_low_df # None
    /\ \E i, j \in RouteRows : i < j /\ RowDate(df, i) > RowDate(df, j)
    /\ Len(prophet_fare_df) > Cardinality(RouteRows)
    /\ line_chart.has_prophet
    /\ analysis_results = PlaceholderText

\* C22: whenever origin and destination are both selected, the Data Store
\* holds at least one record of that origin and that destination, so the
\* filter without the season is not empty: only the season can empty the
\* filter of a fully selected route.
C22_SelectedRouteHasRecords ==
    (dropdown_origin.value # "" /\ dropdown_destination.value # "")
        => /\ \E i \in 1..Len(df) :
                  /\ df[i].airport_name_concat_1 = dropdown_origin.value
                  /\ df[i].airport_name_concat_2 = dropdown_destination.value
           /\ GetFilteredData(df, dropdown_origin.value, dropdown_destination.value,
                              dropdown_season.value, FALSE) # << >>

\* C22 witness: a route was selected by an origin or destination change, from
\* options that leave out an airport of the Data Store, and the season makes
\* the filter of the full selection empty while the route has records.
C22_Witness ==
    /\ last_event \in {"origin", "destination"}
    /\ dropdown_origin.value # ""
    /\ dropdown_destination.value # ""
    /\ \E o \in Origins(df) : o \notin Range(dropdown_origin.options)
    /\ \E i \in 1..Len(df) :
           /\ df[i].airport_name_concat_1 = dropdown_origin.value
           /\ df[i].airport_name_concat_2 = dropdown_destination.value
    /\ GetFilteredData(df, dropdown_origin.value, dropdown_destination.value,
                       dropdown_season.value, TRUE) = << >>

\* C23 (as claimed): whenever a forecast is cached, the model choice is
\* FB Prophet, origin and destination are both selected and the three cached
\* series are those of the selected route (its observations followed by its
\* forecast records); the three cached series are all present or all absent.
C23_CachedForecastIsCurrent ==
    /\ (prophet_fare_df = None) = (prophet_fare_lg_df = None)
    /\ (prophet_fare_df = None) = (prophet_fare_low_df = None)
    /\ prophet_fare_df # None
           => /\ dropdown_ml_model.value = "FB Prophet"
              /\ dropdown_origin.value # ""
              /\ dropdown_destination.value # ""
              /\ ~NoForecastForRoute
              /\ IsHistoryThenForecast(prophet_fare_df, "fare", prophet_fare_dfs)
              /\ IsHistoryThenForecast(prophet_fare_lg_df, "fare_lg", prophet_farelg_dfs)
              /\ IsHistoryThenForecast(prophet_fare_low_df, "fare_low", prophet_farelow_dfs)

RegressionModels == {"XGBoost", "CatBoost", "Decision Tree", "Random Forest"}

\* C24: a displayed numeric estimate goes with a model choice among XGBoost,
\* CatBoost, Decision Tree and Random Forest, and with the season and the
\* model choice it was produced under: an estimate is on display after a
\* step only if analyze has just produced it with the selected model, or if
\* it was on display before and the step changed neither it, nor the season,
\* nor the model choice.  With FB Prophet or no model selected the
\* placeholder is displayed.
C24_EstimateIsCurrent ==
    /\ [](analysis_results # PlaceholderText
              => dropdown_ml_model.value \in RegressionModels)
    /\ [](dropdown_ml_model.value \in {"FB Prophet", ""}
              => analysis_results = PlaceholderText)
    /\ [][analysis_results' # PlaceholderText
             => \/ /\ last_event' = "analyze"
                   /\ invoked'.model = dropdown_ml_model.value
                   /\ invoked'.model \in RegressionModels
                   /\ UNCHANGED <<dropdown_season, dropdown_ml_model>>
                \/ /\ analysis_results # PlaceholderText
                   /\ UNCHANGED <<analysis_results, dropdown_season,
                                  dropdown_ml_model>>]_vars

\* C24 witness: an estimate produced by an earlier analyze is still on display
\* after a later event, under the model that produced it.
C24_Witness ==
    /\ analysis_results # PlaceholderText
    /\ last_event # "analyze"
    /\ dropdown_ml_model.value \in RegressionModels
    /\ dropdown_season.value # ""

\* C25: an origin change or a destination change leaves the displayed
\* prediction as it was; the displayed prediction changes only in a season
\* change, a model change or an analyze.  A numeric estimate therefore stays
\* on display across route changes.
C25_RouteChangeKeepsPrediction ==
    /\ [][last_event' \in {"origin", "destination"} => UNCHANGED analysis_results]_vars
    /\ [][analysis_results' # analysis_results
             => last_event' \in {"season", "ml_model", "analyze"}]_vars

\* C25 witness: a route change has just selected another origin or
\* destination while a numeric estimate was on display, and completed its
\* chart cascade; the estimate is still displayed.
C25_Witness ==
    /\ last_event \in {"origin", "destination"}
    /\ ~failed
    /\ dropdown_origin.value # ""
    /\ dropdown_destination.value # ""
    /\ analysis_results # PlaceholderText
    /\ histogram.rows = GetFilteredData(df, dropdown_origin.value,
                                        dropdown_destination.value,
                                        dropdown_season.value, TRUE)

\* The selected origin or destination has one of the six codes that stand
\* for several airports.
MultiAirportRoute ==
    LET codes == {"ACY", "ORD", "DTW", "LGA", "IAD", "EGE"}
    IN  \/ FirstToken(dropdown_origin.value) \in codes
        \/ FirstToken(dropdown_destination.value) \in codes

\* The route key of the current selection.
SelectedRouteKey ==
    RouteKey(FirstToken(dropdown_origin.value), FirstToken(dropdown_destination.value))

\* C26: analyze with FB Prophet on a selected route with a multi-airport
\* code (ACY, ORD, DTW, LGA, IAD, EGE) consults the secondary tables only:
\* they are empty, so the route is reported ineligible and no forecast is
\* stored, whatever the primary tables hold for its key; the cached series
\* and the line chart stay as they were.
C26_MultiAirportIneligible ==
    [][(/\ last_event' = "analyze"
        /\ dropdown_ml_model.value = "FB Prophet"
        /\ dropdown_origin.value # ""
        /\ dropdown_destination.value # ""
        /\ MultiAirportRoute)
       => /\ DOMAIN prophet_fare_dfs2 = {}
          /\ DOMAIN prophet_farelg_dfs2 = {}
          /\ DOMAIN prophet_farelow_dfs2 = {}
          /\ notice' = IneligibleNotice
          /\ \A k \in 1..Len(steps') : steps'[k].step # "store_forecast"
          /\ UNCHANGED <<cached, line_chart>>]_vars

\* C26 witness: the ineligible notice was printed for a multi-airport route
\* whose records reach 2024 and for which the primary table holds a forecast.
C26_Witness ==
    /\ last_event = "analyze"
    /\ dropdown_ml_model.value = "FB Prophet"
    /\ dropdown_origin.value # ""
    /\ dropdown_destination.value # ""
    /\ MultiAirportRoute
    /\ \E y \in RouteYears : y = 2024
    /\ SelectedRouteKey \in DOMAIN prophet_fare_dfs
    /\ notice = IneligibleNotice
    /\ prophet_fare_df = None

====
